---- MODULE Spec2Model ----
(***************************************************************************)
(* ara::core::Variant (variant.h) and the type-list helpers of             *)
(* ara/internal/type_traits.h.  Variant<Ts...> forwards every operation to *)
(* the wrapped std::variant<Ts...> _impl; the model follows the forwarding *)
(* call of each member and the behaviour of the wrapped object as built    *)
(* with libstdc++ (GCC 12, -std=c++20).                                    *)
(***************************************************************************)
EXTENDS Integers, Sequences, FiniteSets, TLC

\* Largest payload value; payloads are 0..MaxVal.
MaxVal == 1

Values == 0..MaxVal

\* variant_npos = static_cast<std::size_t>(-1); index() reports it for a
\* variant without a value.  Only equality with it is ever used.
variant_npos == -1

(***************************************************************************)
(* The types used as alternatives and as arguments.                        *)
(*   int, long : scalars                                                   *)
(*   cstr      : const char* (scalar)                                      *)
(*   string    : std::string (copy may throw, move is noexcept)            *)
(*   A         : class, every special member and A(int) may throw          *)
(*   B         : class, copy may throw, move is noexcept                   *)
(*   P         : trivially copyable class, P(int) may throw                *)
(*   X         : trivially copyable class with X(int) only (may throw) and *)
(*               no default constructor                                    *)
(*   S         : trivially copyable class with a const member: S(int) only *)
(*               (may throw), copy constructible, not assignable, no       *)
(*               default constructor; compares by its value                *)
(*   Monostate : ara::core::Monostate, an empty class                      *)
(*   ThrowConv : argument-only class with a throwing operator int()        *)
(***************************************************************************)
Types ==
    {"int", "long", "cstr", "string", "A", "B", "P", "X", "S", "Monostate"}

ArgTypes == Types \cup {"ThrowConv"}

\* std::is_scalar_v<T>
is_scalar_v(T) == T \in {"int", "long", "cstr"}

\* Types whose copy/move/destroy operations are all trivial.
is_trivial_alt(T) == T \in {"int", "long", "cstr", "P", "X", "Monostate"}

\* std::is_nothrow_copy_constructible_v<T>
is_nothrow_copy_constructible_v(T) == is_trivial_alt(T) \/ T = "S"

\* std::is_nothrow_move_constructible_v<T>
is_nothrow_move_constructible_v(T) ==
    is_trivial_alt(T) \/ T \in {"B", "string", "S"}

\* std::is_nothrow_copy_assignable_v<T>
is_nothrow_copy_assignable_v(T) == is_trivial_alt(T)

\* std::is_nothrow_move_assignable_v<T>
is_nothrow_move_assignable_v(T) == is_trivial_alt(T) \/ T \in {"B", "string"}

\* std::is_copy_constructible_v<T> && std::is_copy_assignable_v<T>
is_copy_assignable_v(T) == T \in Types \ {"S"}

\* std::is_move_constructible_v<T> && std::is_move_assignable_v<T>
is_move_assignable_v(T) == T \in Types \ {"S"}

\* std::is_swappable_v<T>: every type here is move constructible, so T is
\* swappable when it can be move-assigned.
is_swappable_v(T) == is_move_assignable_v(T)

\* std::is_default_constructible_v<T>
is_default_constructible_v(T) == T \in Types \ {"X", "S"}

\* libstdc++ __detail::__variant::_Never_valueless_alt<T>: small trivially
\* copyable types, and the specialisation for std::string.
Never_valueless_alt(T) == is_trivial_alt(T) \/ T \in {"string", "S"}

\* Types with their own overload of swap, which unqualified swap(a, b)
\* prefers to the generic std::swap: std::string.
has_swap_overload(T) == T = "string"

\* The value a moved-from object of type T is left with.
MovedFrom(T, val) == IF T = "string" THEN 0 ELSE val

(***************************************************************************)
(* Conversions.  ConvKind(From, To) is the implicit conversion sequence    *)
(* from an argument of type From to To.                                    *)
(***************************************************************************)
ConvKind(From, To) ==
    IF From = To THEN "exact"
    ELSE IF From = "int" /\ To = "long" THEN "standard"
    ELSE IF From = "long" /\ To = "int" THEN "narrowing"
    ELSE IF From \in {"int", "long"} /\ To \in {"A", "P", "X", "S"} THEN "user"
    ELSE IF From = "cstr" /\ To = "string" THEN "user"
    ELSE IF From = "ThrowConv" /\ To = "int" THEN "user"
    ELSE IF From = "ThrowConv" /\ To = "long" THEN "user_standard"
    ELSE "none"

\* std::is_convertible<From, To>::value
is_convertible(From, To) == ConvKind(From, To) # "none"

\* std::is_constructible_v<To, From> for a single argument: the implicit
\* conversions, and the direct-initialisation To(ThrowConv) through
\* ThrowConv::operator int() and the constructor To(int).
is_constructible_v(To, From) ==
    \/ ConvKind(From, To) # "none"
    \/ From = "ThrowConv" /\ ConvKind("int", To) = "user"

\* std::is_constructible_v<To, std::initializer_list<char>&>
is_constructible_from_il(To) == To = "string"

\* The payload of To(arg) for an argument of type From holding val, "ilist"
\* standing for an initializer list.  Every construction carries the payload
\* over unchanged.  A Monostate has a single value.
Convert(From, To, val) ==
    IF From = "ilist"
    THEN IF is_constructible_from_il(To) THEN val ELSE -1
    ELSE IF ~is_constructible_v(To, From) THEN -1
    ELSE IF To = "Monostate" THEN 0
    ELSE val

\* An argument: its type, its value category ("l" lvalue, "r" rvalue) and
\* its payload.
ArgKinds ==
    {<<T, "r">> : T \in ArgTypes} \cup {<<T, "l">> : T \in {"A", "B", "string"}}

\* std::is_nothrow_constructible_v<To, Arg>
is_nothrow_constructible_v(To, From, cat) ==
    IF From = To
    THEN IF cat = "r" THEN is_nothrow_move_constructible_v(To)
                      ELSE is_nothrow_copy_constructible_v(To)
    ELSE ConvKind(From, To) \in {"standard", "narrowing"}

\* Whether  lhs = arg  on an lvalue of type To cannot throw.
is_nothrow_assignable_lvalue(To, From, cat) ==
    IF From = To
    THEN IF cat = "r" THEN is_nothrow_move_assignable_v(To)
                      ELSE is_nothrow_copy_assignable_v(To)
    ELSE ConvKind(From, To) \in {"standard", "narrowing"}

\* std::is_nothrow_assignable_v<To, From> with To not a reference: the left
\* operand is an rvalue, so a scalar To is never assignable.
is_nothrow_assignable_v(To, From) ==
    /\ ~is_scalar_v(To)
    /\ is_nothrow_assignable_lvalue(To, From, "r")

(***************************************************************************)
(* ara/internal/type_traits.h: the helpers over the list of alternatives.  *)
(***************************************************************************)
Condition(name, T, E) ==
    IF name = "is_same" THEN T = E ELSE is_convertible(T, E)

\* A variant of element_pos that answers 0 for a type that does not occur.
element_pos_absent_zero(T, list) ==
    IF \E i \in 1..Len(list) : list[i] = T
    THEN (CHOOSE i \in 1..Len(list) :
             list[i] = T /\ \A k \in 1..(i - 1) : list[k] # T) - 1
    ELSE 0

RECURSIVE element_pos(_, _)
element_pos(T, list) ==
    IF list = <<>> THEN 0
    ELSE IF T = Head(list) THEN 0
    ELSE element_pos(T, Tail(list)) + 1

\* A variant of type_occurrence that counts a repeated type once.
type_occurrence_distinct(name, T, list) ==
    Cardinality({list[i] : i \in {k \in 1..Len(list) :
                                    Condition(name, T, list[k])}})

RECURSIVE type_occurrence(_, _, _)
type_occurrence(name, T, list) ==
    IF list = <<>> THEN 0
    ELSE IF Condition(name, T, Head(list))
         THEN type_occurrence(name, T, Tail(list)) + 1
         ELSE type_occurrence(name, T, Tail(list))

\* A variant of find_matching_type that yields the last matching entry.
find_matching_type_last(name, T, list) ==
    IF \E i \in 1..Len(list) : Condition(name, T, list[i])
    THEN list[CHOOSE i \in 1..Len(list) :
                 /\ Condition(name, T, list[i])
                 /\ \A k \in (i + 1)..Len(list) : ~Condition(name, T, list[k])]
    ELSE "none"

\* find_matching_type<false, Condition, T, Ts...>::type; "none" stands for
\* the undefined case (no member type: substitution failure).
RECURSIVE find_matching_type(_, _, _)
find_matching_type(name, T, list) ==
    IF list = <<>> THEN "none"
    ELSE IF Condition(name, T, Head(list)) THEN Head(list)
    ELSE find_matching_type(name, T, Tail(list))

find_matching_index_v(name, T, list) ==
    element_pos(find_matching_type(name, T, list), list)

is_unique_v(T, list) == type_occurrence("is_same", T, list) = 1

is_in_range_v(I, list) == I >= 0 /\ I < Len(list)

\* variant_alternative_t<I, Variant<Ts...>>, I counted from 0.
variant_alternative_t(I, list) == list[I + 1]

(***************************************************************************)
(* The alternative selected by the wrapped object for a converting         *)
(* construction or assignment: overload resolution over the imaginary      *)
(* functions FUN(T_i), built only for those T_i for which                  *)
(* T_i x[] = {std::forward<T>(t)} is well-formed (no narrowing).           *)
(***************************************************************************)
ConvRank(kind) ==
    IF kind = "exact" THEN 0
    ELSE IF kind = "standard" THEN 1
    ELSE IF kind = "user" THEN 2
    ELSE 3

FUN_candidates(T, list) ==
    {i \in 1..Len(list) : ConvKind(T, list[i])
                                \in {"exact", "standard", "user",
                                     "user_standard"}}

FUN_best(T, list) ==
    {i \in FUN_candidates(T, list) :
        \A k \in FUN_candidates(T, list) :
            ConvRank(ConvKind(T, list[i])) <= ConvRank(ConvKind(T, list[k]))}

\* A variant of the selection that takes the first alternative T converts to.
accepted_first_convertible(T, list) ==
    IF find_matching_type("is_convertible", T, list) = "none"
    THEN variant_npos
    ELSE find_matching_index_v("is_convertible", T, list)

\* __accepted_index<T>, counted from 0; variant_npos when the call to FUN is
\* ill-formed (no candidate, or an ambiguous call).
accepted_index(T, list) ==
    IF Cardinality(FUN_best(T, list)) = 1
    THEN (CHOOSE i \in FUN_best(T, list) : TRUE) - 1
    ELSE variant_npos

\* Variant(T&&) and operator=(T&&) take part in overload resolution only if
\* find_matching_type_t<std::is_convertible, T, Ts...> names a type, and
\* their bodies compile only if the wrapped object accepts T.
converting_enabled(T, list) ==
    /\ find_matching_type("is_convertible", T, list) # "none"
    /\ accepted_index(T, list) # variant_npos

(***************************************************************************)
(* The state of one Variant: the discriminant _M_index and the objects     *)
(* alive in the storage union _M_u, each a pair <<alternative, payload>>.  *)
(***************************************************************************)
Holding(i, val) == [idx |-> i, store |-> {<<i, val>>}]

Valueless == [idx |-> variant_npos, store |-> {}]

\* Variant::index()
index(v) == v.idx

\* Variant::valueless_by_exception()
valueless_by_exception(v) == v.idx = variant_npos

\* The payload of the live object of alternative i (get<i> without checks).
raw_get(v, i) == (CHOOSE o \in v.store : o[1] = i)[2]

\* The outcome of a step: the variant afterwards, whether it returned
\* ("ok") or threw ("throw"), and the lifetime events on its storage.
Step(v, out, ev) == [v |-> v, out |-> out, ev |-> ev]

\* _Variant_storage::_M_reset(): destroy the live object, if any, and mark
\* the variant as having no value.
M_reset(v) ==
    Step([idx |-> variant_npos, store |-> {}], "ok",
         IF v.idx = variant_npos THEN <<>> ELSE <<"dtor">>)

\* Variants of __emplace with a slip in it.
raw_emplace_no_reset(v, j, val, fail) ==
    IF fail
    THEN Step(v, "throw", <<>>)
    ELSE Step([idx |-> j, store |-> v.store \cup {<<j, val>>}], "ok",
              <<"ctor">>)

raw_emplace_skips_when_held(v, j, val, fail) ==
    LET r == M_reset(v)
    IN  IF v.idx = j
        THEN Step(v, "ok", <<>>)
        ELSE IF fail
        THEN Step(r.v, "throw", r.ev)
        ELSE Step([idx |-> j, store |-> {<<j, val>>}], "ok",
                  Append(r.ev, "ctor"))

raw_emplace_construct_first(v, j, val, fail) ==
    IF fail
    THEN Step(v, "throw", <<>>)
    ELSE Step([idx |-> j, store |-> {<<j, val>>}], "ok",
              IF v.idx = variant_npos THEN <<"ctor">> ELSE <<"ctor", "dtor">>)

\* __detail::__variant::__emplace<N>(v, args...): reset, construct the new
\* object in place, and only then set the index.
raw_emplace(v, j, val, fail) ==
    LET r == M_reset(v)
    IN  IF fail
        THEN Step(r.v, "throw", r.ev)
        ELSE Step([idx |-> j, store |-> r.v.store \cup {<<j, val>>}], "ok",
                  Append(r.ev, "ctor"))

\* A variant of the in-place assignment that gives the value up on failure.
assign_alt_reset(v, j, val, fail) ==
    IF fail
    THEN Step(Valueless, "throw", <<"assign", "dtor">>)
    ELSE Step([idx |-> j, store |-> {<<j, val>>}], "ok", <<"assign">>)

\* get<j>(v) = value: the alternative's own assignment operator; a throwing
\* assignment leaves the payload as it was.
assign_alt(v, j, val, fail) ==
    IF fail
    THEN Step(v, "throw", <<"assign">>)
    ELSE Step([idx |-> j, store |-> {<<j, val>>}], "ok", <<"assign">>)

(***************************************************************************)
(* Traits of the whole list of alternatives (libstdc++ _Traits<Ts...>).    *)
(***************************************************************************)
AllAlts(list, Pred(_)) == \A i \in 1..Len(list) : Pred(list[i])

\* _S_trivial_copy_assign / _S_trivial_move_assign: the assignment of the
\* wrapped object is the defaulted member-wise one.
S_trivial_assign(list) == AllAlts(list, is_trivial_alt)

\* _S_move_assign: every alternative is move constructible and assignable.
S_move_assign(list) == AllAlts(list, is_move_assignable_v)

\* _S_copy_assign: every alternative is copy constructible and assignable;
\* the copy assignment of the wrapped object is deleted otherwise (and the
\* move assignment when S_move_assign is false).
S_copy_assign(list) == AllAlts(list, is_copy_assignable_v)

RECURSIVE emplace(_, _, _, _, _, _, _)
RECURSIVE move_assign(_, _, _, _)

\* A variant of emplace that always constructs in place.
emplace_in_place(v, list, j, From, cat, val, fail) ==
    raw_emplace(v, j, Convert(From, variant_alternative_t(j, list), val),
                fail /\ ~is_nothrow_constructible_v(
                            variant_alternative_t(j, list), From, cat))

\* std::variant::emplace<N>(args...): constructs in place only when that
\* cannot leave the variant without a value, or when nothing better exists.
emplace(v, list, j, From, cat, val, fail) ==
    LET Tj     == variant_alternative_t(j, list)
        newval == Convert(From, Tj, val)
    IN  IF is_nothrow_constructible_v(Tj, From, cat)
        THEN raw_emplace(v, j, newval, FALSE)
        ELSE IF is_scalar_v(Tj)
        THEN \* const type tmp(args...); may throw before v is touched
             IF fail THEN Step(v, "throw", <<>>)
                     ELSE raw_emplace(v, j, newval, FALSE)
        ELSE IF Never_valueless_alt(Tj) /\ S_move_assign(list)
        THEN \* variant tmp(in_place_index<N>, args...); *this = move(tmp);
             IF fail THEN Step(v, "throw", <<>>)
                     ELSE move_assign(v, list, Holding(j, newval), FALSE)
        ELSE raw_emplace(v, j, newval, fail)

\* _Move_assign_base::operator=(_Move_assign_base&&)
move_assign(v, list, rhs, fail) ==
    IF S_trivial_assign(list)
    THEN Step(rhs, "ok", <<>>)
    ELSE IF rhs.idx = variant_npos
    THEN M_reset(v)
    ELSE LET j  == rhs.idx
             Tj == variant_alternative_t(j, list)
         IN  IF v.idx = j
             THEN assign_alt(v, j, raw_get(rhs, j),
                             fail /\ ~is_nothrow_move_assignable_v(Tj))
             ELSE IF is_nothrow_move_constructible_v(Tj)
             THEN raw_emplace(v, j, raw_get(rhs, j), FALSE)
             ELSE emplace(v, list, j, Tj, "r", raw_get(rhs, j), fail)

\* The source of a move after the operation returned normally.
moved_from(rhs, list) ==
    IF rhs.idx = variant_npos THEN rhs
    ELSE Holding(rhs.idx,
                 MovedFrom(variant_alternative_t(rhs.idx, list),
                           raw_get(rhs, rhs.idx)))

\* Variants of the copy assignment: one that rebuilds the value even when
\* the alternative is already held, one that never looks at the index.
copy_assign_always_emplace(v, list, rhs, fail) ==
    IF rhs.idx = variant_npos
    THEN M_reset(v)
    ELSE raw_emplace(v, rhs.idx, raw_get(rhs, rhs.idx),
                     fail /\ ~is_nothrow_copy_constructible_v(
                                 variant_alternative_t(rhs.idx, list)))

copy_assign_no_index_check(v, list, rhs, fail) ==
    IF rhs.idx = variant_npos
    THEN M_reset(v)
    ELSE IF v.idx = variant_npos
    THEN raw_emplace(v, rhs.idx, raw_get(rhs, rhs.idx), FALSE)
    ELSE assign_alt(v, v.idx, raw_get(rhs, rhs.idx), FALSE)

\* _Copy_assign_base::operator=(const _Copy_assign_base&)
copy_assign(v, list, rhs, fail) ==
    IF S_trivial_assign(list)
    THEN Step(rhs, "ok", <<>>)
    ELSE IF rhs.idx = variant_npos
    THEN M_reset(v)
    ELSE LET j  == rhs.idx
             Tj == variant_alternative_t(j, list)
         IN  IF v.idx = j
             THEN assign_alt(v, j, raw_get(rhs, j),
                             fail /\ ~is_nothrow_copy_assignable_v(Tj))
             ELSE IF \/ is_nothrow_copy_constructible_v(Tj)
                     \/ ~is_nothrow_move_constructible_v(Tj)
             THEN raw_emplace(v, j, raw_get(rhs, j),
                              fail /\ ~is_nothrow_copy_constructible_v(Tj))
             ELSE \* self = variant(in_place_index<j>, rhs_mem);
                  IF fail THEN Step(v, "throw", <<>>)
                  ELSE move_assign(v, list, Holding(j, raw_get(rhs, j)), FALSE)

\* lhs = arg on an lvalue of type To converts the argument first: To has no
\* assignment operator taking From, so the right operand is the result of a
\* user-defined conversion (the temporary To(arg), or the value a conversion
\* operator returns).  std::string has operator=(const char*).
assigns_through_conversion(To, From) ==
    /\ ConvKind(From, To) \in {"user", "user_standard"}
    /\ To # "string"

\* The faults of one call: 0 for none, k for the k-th operation that may
\* throw throwing.
Faults == 0..2

\* A variant of the converting assignment that rebuilds a held alternative.
conv_assign_reconstruct(v, list, From, cat, val, fail) ==
    emplace(v, list, accepted_index(From, list), From, cat, val, fail = 1)

\* std::variant::operator=(T&&)
conv_assign(v, list, From, cat, val, fail) ==
    LET j      == accepted_index(From, list)
        Tj     == variant_alternative_t(j, list)
        newval == Convert(From, Tj, val)
    IN  IF v.idx = j
        THEN \* std::get<j>(*this) = std::forward<T>(rhs);
             IF assigns_through_conversion(Tj, From)
             THEN IF fail = 1
                  THEN Step(v, "throw", <<>>)
                  ELSE assign_alt(v, j, newval,
                                  fail = 2 /\ ~is_nothrow_move_assignable_v(Tj))
             ELSE assign_alt(v, j, newval,
                             fail = 1 /\ ~is_nothrow_assignable_lvalue(
                                             Tj, From, cat))
        ELSE IF \/ is_nothrow_constructible_v(Tj, From, cat)
                \/ ~is_nothrow_move_constructible_v(Tj)
        THEN emplace(v, list, j, From, cat, val, fail = 1)
        ELSE \* operator=(variant(std::forward<T>(rhs)));
             IF fail = 1 THEN Step(v, "throw", <<>>)
             ELSE move_assign(v, list, Holding(j, newval), FALSE)

\* An exception leaving a function declared noexcept calls std::terminate.
Leave(out, declared_noexcept) ==
    IF out = "throw" /\ declared_noexcept THEN "terminate" ELSE out

\* The noexcept-specification of Variant::operator=(T&&):
\* is_nothrow_assignable_v<Ti, decay_t<T>> &&
\* is_nothrow_constructible_v<Ti, decay_t<T>>, Ti the first alternative T
\* converts to.
conv_assign_noexcept(From, list) ==
    LET Ti == find_matching_type("is_convertible", From, list)
    IN  /\ is_nothrow_assignable_v(Ti, From)
        /\ is_nothrow_constructible_v(Ti, From, "r")

\* A variant of Variant::operator=(T&&) whose second step copies from the
\* object as it was before the call.
Variant_conv_assign_from_old(v, list, From, cat, val, fail1, fail2) ==
    LET ne == conv_assign_noexcept(From, list)
        r1 == conv_assign(v, list, From, cat, val, fail1)
    IN  IF r1.out = "throw"
        THEN Step(r1.v, Leave("throw", ne), r1.ev)
        ELSE LET r2 == copy_assign(r1.v, list, v, fail2)
             IN  Step(r2.v, Leave(r2.out, ne), r1.ev \o r2.ev)

\* Variant::operator=(T&&):
\*   _impl = _impl.template operator=<T>(std::forward<T>(t));
\* the converting assignment of the wrapped object, then its copy
\* assignment from the reference that call returned (the object itself).
Variant_conv_assign(v, list, From, cat, val, fail1, fail2) ==
    LET ne == conv_assign_noexcept(From, list)
        r1 == conv_assign(v, list, From, cat, val, fail1)
    IN  IF r1.out = "throw"
        THEN Step(r1.v, Leave("throw", ne), r1.ev)
        ELSE LET r2 == copy_assign(r1.v, list, r1.v, fail2)
             IN  Step(r2.v, Leave(r2.out, ne), r1.ev \o r2.ev)

\* The outcome of an operation on two variants: v is *this, w the other.
Step2(v, w, out, ev) == [v |-> v, w |-> w, out |-> out, ev |-> ev]

\* A variant of the same-alternative exchange that loses the left value.
swap_same_overwrite(t, r, list, fail) ==
    Step2(Holding(r.idx, raw_get(r, r.idx)), Holding(r.idx, raw_get(r, r.idx)),
          "ok", <<"assign">>)

\* using std::swap; swap(get<j>(t), rhs_mem) on two objects of the same
\* alternative.  For std::string the call selects
\* std::swap(basic_string&, basic_string&), which is lhs.swap(rhs): the
\* contents are exchanged without any constructor, destructor or assignment
\* and without a throw.  Otherwise it is the generic std::swap:
\* T tmp(move(a)); a = move(b); b = move(tmp);  fail names the step that
\* throws (0: none).
swap_same(t, r, list, fail) ==
    LET j  == r.idx
        Tj == variant_alternative_t(j, list)
        a  == raw_get(t, j)
        b  == raw_get(r, j)
    IN  IF has_swap_overload(Tj)
        THEN Step2(Holding(j, b), Holding(j, a), "ok", <<>>)
        ELSE IF fail = 1 /\ ~is_nothrow_move_constructible_v(Tj)
        THEN Step2(t, r, "throw", <<>>)
        ELSE IF fail = 2 /\ ~is_nothrow_move_assignable_v(Tj)
        THEN Step2(Holding(j, MovedFrom(Tj, a)), r, "throw", <<"assign">>)
        ELSE IF fail = 3 /\ ~is_nothrow_move_assignable_v(Tj)
        THEN Step2(Holding(j, b), Holding(j, MovedFrom(Tj, b)), "throw",
                   <<"assign">>)
        ELSE Step2(Holding(j, b), Holding(j, a), "ok", <<"assign">>)

\* The exchange of two different alternatives in std::variant::swap:
\*   auto tmp(move(rhs_mem));
\*   rhs = move(*this)           (member-wise when trivial), or
\*   __emplace<k>(rhs, move(this_mem)) when *this holds alternative k;
\*   __emplace<j>(*this, move(tmp));
swap_different(t, r, list, fail) ==
    LET j  == r.idx
        Tj == variant_alternative_t(j, list)
        b  == raw_get(r, j)
        r1 == Holding(j, MovedFrom(Tj, b))
        r2 == IF S_trivial_assign(list)
              THEN Step(t, "ok", <<>>)
              ELSE IF t.idx # variant_npos
              THEN raw_emplace(r1, t.idx, raw_get(t, t.idx),
                               /\ fail = 2
                               /\ ~is_nothrow_move_constructible_v(
                                      variant_alternative_t(t.idx, list)))
              ELSE Step(r1, "ok", <<>>)
        r3 == raw_emplace(moved_from(t, list), j, b,
                          fail = 3 /\ ~is_nothrow_move_constructible_v(Tj))
    IN  IF fail = 1 /\ ~is_nothrow_move_constructible_v(Tj)
        THEN Step2(t, r, "throw", <<>>)
        ELSE IF r2.out = "throw"
        THEN Step2(t, r2.v, "throw", <<>>)
        ELSE Step2(r3.v, r2.v, r3.out, r3.ev)

\* std::variant::swap for a right-hand side that holds a value.
swap_core(t, r, list, fail) ==
    IF t.idx = r.idx THEN swap_same(t, r, list, fail)
                     ELSE swap_different(t, r, list, fail)

\* std::variant::swap(variant& rhs)
variant_swap(v, rhs, list, fail) ==
    IF rhs.idx = variant_npos
    THEN IF v.idx # variant_npos
         THEN LET s == swap_core(rhs, v, list, fail)   \* rhs.swap(*this)
              IN  Step2(s.w, s.v, s.out, <<>>)
         ELSE Step2(v, rhs, "ok", <<>>)
    ELSE swap_core(v, rhs, list, fail)

\* The body of std::variant::swap swaps or move-assigns every alternative,
\* so the call compiles only when every alternative is swappable.
swap_compiles(list) == AllAlts(list, is_swappable_v)

\* std::is_nothrow_swappable_v<T>
is_nothrow_swappable_v(T) ==
    is_nothrow_move_constructible_v(T) /\ is_nothrow_move_assignable_v(T)

\* noexcept((is_nothrow_move_constructible_v<Ts> &&
\*           is_nothrow_swappable_v<Ts>) && ...)
swap_noexcept(list) ==
    \A i \in 1..Len(list) :
        /\ is_nothrow_move_constructible_v(list[i])
        /\ is_nothrow_swappable_v(list[i])

\* swap(Variant& lhs, Variant& rhs) { lhs.swap(rhs); }  The member swap is
\* declared noexcept(swap_noexcept).
free_swap(lhs, rhs, list, fail) ==
    LET r0 == variant_swap(lhs, rhs, list, fail)
    IN  Step2(r0.v, r0.w, Leave(r0.out, swap_noexcept(list)), r0.ev)

\* noexcept((is_nothrow_move_constructible_v<Ts> &&
\*           is_nothrow_move_assignable_v<Ts>) && ...)
move_assign_noexcept(list) ==
    \A i \in 1..Len(list) :
        /\ is_nothrow_move_constructible_v(list[i])
        /\ is_nothrow_move_assignable_v(list[i])

\* noexcept((is_nothrow_move_constructible_v<Ts> && ...))
move_ctor_noexcept(list) == AllAlts(list, is_nothrow_move_constructible_v)

\* A variant of the constraint that asks every alternative for a default
\* constructor.
default_ctor_enabled_all(list) == AllAlts(list, is_default_constructible_v)

\* template<typename = requires_<is_default_constructible_v<T_0>>> Variant()
default_ctor_enabled(list) == is_default_constructible_v(list[1])

(***************************************************************************)
(* Constructors: the new object, or no object when construction throws.    *)
(***************************************************************************)
\* Variant(): the value-initialised first alternative.
default_ctor == Step(Holding(0, 0), "ok", <<"ctor">>)

\* A variant of the copy constructor that copies the discriminant and
\* value-initialises the alternative.
copy_ctor_value_initialised(other, list, fail) ==
    IF other.idx = variant_npos
    THEN Step(Valueless, "ok", <<>>)
    ELSE Step(Holding(other.idx, 0), "ok", <<"ctor">>)

\* Variant(const Variant& other) : _impl(other._impl)
copy_ctor(other, list, fail) ==
    IF other.idx = variant_npos
    THEN Step(Valueless, "ok", <<>>)
    ELSE IF fail /\ ~is_nothrow_copy_constructible_v(
                        variant_alternative_t(other.idx, list))
    THEN Step(Valueless, "throw", <<>>)
    ELSE Step(Holding(other.idx, raw_get(other, other.idx)), "ok", <<"ctor">>)

\* Variant(Variant&& other) : _impl(std::forward<WrappedType>(other._impl))
move_ctor(other, list, fail) ==
    IF other.idx = variant_npos
    THEN Step(Valueless, "ok", <<>>)
    ELSE IF fail /\ ~is_nothrow_move_constructible_v(
                        variant_alternative_t(other.idx, list))
    THEN Step(Valueless, Leave("throw", move_ctor_noexcept(list)), <<>>)
    ELSE Step(Holding(other.idx, raw_get(other, other.idx)), "ok", <<"ctor">>)

\* Variant(T&& t) : _impl(std::forward<T>(t)), declared
\* noexcept(is_nothrow_constructible_v<Ti, T>) with Ti the first alternative
\* T converts to.
converting_ctor(list, From, cat, val, fail) ==
    LET j  == accepted_index(From, list)
        Tj == variant_alternative_t(j, list)
        Ti == find_matching_type("is_convertible", From, list)
    IN  IF fail /\ ~is_nothrow_constructible_v(Tj, From, cat)
        THEN Step(Valueless,
                  Leave("throw", is_nothrow_constructible_v(Ti, From, cat)),
                  <<>>)
        ELSE Step(Holding(j, Convert(From, Tj, val)), "ok", <<"ctor">>)

\* The argument lists of the in-place constructors: one argument, or none.
InPlaceArgKinds == ArgKinds \cup {<<"noargs", "r">>}

\* std::is_nothrow_default_constructible_v<T>
is_nothrow_default_constructible_v(T) ==
    is_default_constructible_v(T) /\ T \notin {"A", "B"}

\* is_constructible_v<To, Args...> for an argument list of at most one
\* argument.
is_constructible_from_args(To, From) ==
    IF From = "noargs" THEN is_default_constructible_v(To)
                       ELSE is_constructible_v(To, From)

\* The constraints of Variant(in_place_type_t<T>, Args&&...).
in_place_type_enabled(T, From, list) ==
    is_unique_v(T, list) /\ is_constructible_from_args(T, From)

\* The constraints of
\* Variant(in_place_type_t<T>, std::initializer_list<U>, Args&&...).
in_place_type_il_enabled(T, list) ==
    is_unique_v(T, list) /\ is_constructible_from_il(T)

\* The constraints of Variant(in_place_index_t<I>, Args&&...).
in_place_index_enabled(I, From, list) ==
    /\ is_in_range_v(I, list)
    /\ \A i \in 1..Len(list) : is_constructible_from_args(list[i], From)

\* The constraints of
\* Variant(in_place_index_t<I>, std::initializer_list<U>, Args&&...).
in_place_index_il_enabled(I, list) ==
    /\ is_in_range_v(I, list)
    /\ \E i \in 1..Len(list) : is_constructible_from_il(list[i])

\* std::variant's in-place constructors take part in overload resolution
\* only if the selected alternative is constructible from the arguments;
\* the wrapper's member initialiser does not compile otherwise.
impl_in_place_ok(I, From, list) ==
    /\ is_in_range_v(I, list)
    /\ IF From = "ilist"
       THEN is_constructible_from_il(variant_alternative_t(I, list))
       ELSE is_constructible_from_args(variant_alternative_t(I, list), From)

\* A variant of the in-place construction that lets the argument pick the
\* alternative, as the converting constructor does.
in_place_ctor_by_resolution(list, I, From, cat, val, fail) ==
    IF From \in ArgTypes /\ accepted_index(From, list) # variant_npos
    THEN converting_ctor(list, From, cat, val, FALSE)
    ELSE Step(Holding(I, 0), "ok", <<"ctor">>)

\* _impl(std::in_place_index_t<I>{}, args...): the I-th alternative is
\* direct-initialised from the arguments.
in_place_ctor(list, I, From, cat, val, fail) ==
    LET Tj == variant_alternative_t(I, list)
        nothrow == IF From = "noargs"
                   THEN is_nothrow_default_constructible_v(Tj)
                   ELSE IF From = "ilist" THEN FALSE
                   ELSE is_nothrow_constructible_v(Tj, From, cat)
        newval == IF From = "noargs" THEN 0
                  ELSE IF From = "ilist" THEN val
                  ELSE Convert(From, Tj, val)
    IN  IF fail /\ ~nothrow
        THEN Step(Valueless, "throw", <<>>)
        ELSE Step(Holding(I, newval), "ok", <<"ctor">>)

(***************************************************************************)
(* Accessors.                                                              *)
(***************************************************************************)
NullPtr == [null |-> TRUE]

PtrTo(val) == [null |-> FALSE, val |-> val]

\* A variant of get that hands out whatever value is held.
get_held(v, I) ==
    IF index(v) # variant_npos
    THEN [out |-> "ok", val |-> raw_get(v, index(v))]
    ELSE [out |-> "throw", val |-> -1]

\* get<I>(v): return std::get<I>(v._impl), which throws when another
\* alternative (or none) is held.
get(v, I) ==
    IF index(v) = I THEN [out |-> "ok", val |-> raw_get(v, I)]
                    ELSE [out |-> "throw", val |-> -1]

\* A variant of get_if that does not compare the index.
get_if_unchecked(pv, I) ==
    IF ~pv.null THEN PtrTo(get(pv.val, I).val) ELSE NullPtr

\* get_if<I>(pv): pv is NullPtr or PtrTo(a variant).
get_if(pv, I) ==
    IF ~pv.null /\ index(pv.val) = I
    THEN PtrTo(get(pv.val, I).val)
    ELSE NullPtr

\* get<T>(v): return std::get<T>(v._impl).
get_type(v, T, list) == get(v, element_pos(T, list))

\* get_if<T>(pv): return get_if<element_pos_v<T, Ts...>>(pv).
get_if_type(pv, T, list) == get_if(pv, element_pos(T, list))

\* holds_alternative<T>(v)
holds_alternative(T, v, list) == index(v) = element_pos(T, list)

(***************************************************************************)
(* Relational operators.                                                   *)
(***************************************************************************)
RelOps == {"==", "!=", "<", ">", "<=", ">="}

\* a OP b on integers.
cmp(OP, a, b) ==
    IF OP = "==" THEN a = b
    ELSE IF OP = "!=" THEN a # b
    ELSE IF OP = "<" THEN a < b
    ELSE IF OP = ">" THEN a > b
    ELSE IF OP = "<=" THEN a <= b
    ELSE a >= b

\* A variant of Monostate's operators in which == and != change places.
Monostate_rel_unequal(OP) == OP \in {"!=", "<=", ">="}

\* operator OP (Monostate, Monostate)
Monostate_rel(OP) == OP \in {"==", "<=", ">="}

\* a OP b for two values of alternative T: Monostate's own operators, the
\* order of the payloads for every other type.
alt_rel(OP, T, a, b) ==
    IF T = "Monostate" THEN Monostate_rel(OP) ELSE cmp(OP, a, b)

\* std::variant's operator OP: the alternatives' operator when both sides
\* hold the same alternative, (lhs.index() + 1) OP (rhs.index() + 1)
\* otherwise; variant_npos + 1 wraps around to 0.
variant_rel(OP, v, w, list) ==
    IF w.idx # variant_npos /\ v.idx = w.idx
    THEN alt_rel(OP, variant_alternative_t(w.idx, list),
                 raw_get(v, w.idx), raw_get(w, w.idx))
    ELSE cmp(OP, v.idx + 1, w.idx + 1)

\* A variant of operator== that compares the discriminants only.
operator_eq_same_alternative(v, w, list) == v.idx = w.idx

\* operator==(v, w): return v._impl == w._impl;
operator_eq(v, w, list) == variant_rel("==", v, w, list)

\* operator!=(v, w): return !(v == w);
operator_ne(v, w, list) == ~operator_eq(v, w, list)

\* A variant of operator< that looks at the held values first.
operator_lt_by_value(v, w, list) ==
    IF v.idx # variant_npos /\ w.idx # variant_npos
          /\ raw_get(v, v.idx) # raw_get(w, w.idx)
    THEN raw_get(v, v.idx) < raw_get(w, w.idx)
    ELSE v.idx < w.idx

\* operator<(v, w): return v._impl < w._impl;
operator_lt(v, w, list) == variant_rel("<", v, w, list)

\* A variant of operator> that is false whenever an operand holds no value.
operator_gt_holding_only(v, w, list) ==
    /\ v.idx # variant_npos
    /\ w.idx # variant_npos
    /\ variant_rel(">", v, w, list)

\* operator>(v, w): return v._impl > w._impl;
operator_gt(v, w, list) == variant_rel(">", v, w, list)

\* operator<=(v, w): return v._impl <= w._impl;
operator_le(v, w, list) == variant_rel("<=", v, w, list)

\* A variant of operator>= that is strict.
operator_ge_strict(v, w, list) == variant_rel(">", v, w, list)

\* operator>=(v, w): return v._impl >= w._impl;
operator_ge(v, w, list) == variant_rel(">=", v, w, list)

\* Every state a Variant<list...> can be in.
VariantStates(list) ==
    {Valueless} \cup
    {Holding(i - 1, val) :
        <<i, val>> \in {c \in (1..Len(list)) \X Values :
                           list[c[1]] = "Monostate" => c[2] = 0}}

(***************************************************************************)
(* Visitation.                                                             *)
(***************************************************************************)
\* How the visitor's cases take their arguments: by reference to const, or
\* by value.
VisitorModes == {"cref", "value"}

NoResult == [case |-> <<>>, args |-> <<>>]

\* The value returned by the visitor's case for the alternatives case when
\* applied to args; different cases and arguments give different results.
visitor_case(case, args) == [case |-> case, args |-> args]

\* The call of a case whose parameters are taken by value.
\* std::forward<decltype(vars._impl)>(vars._impl) casts every variant to an
\* rvalue, so each parameter is move-constructed from the value its variant
\* holds; the parameters are initialised from the last to the first.  fail
\* names the parameter whose move constructor throws (0: none); k is the
\* parameter initialised next.
RECURSIVE pass_by_value(_, _, _, _, _, _)
pass_by_value(k, objs, refs, list, fail, args) ==
    IF k = 0 THEN [out |-> "ok", objs |-> objs, args |-> args]
    ELSE LET o == objs[refs[k]]
             T == variant_alternative_t(o.idx, list)
         IN  IF fail = k /\ ~is_nothrow_move_constructible_v(T)
             THEN [out |-> "throw", objs |-> objs, args |-> args]
             ELSE pass_by_value(k - 1,
                                [objs EXCEPT ![refs[k]] = moved_from(o, list)],
                                refs, list, fail,
                                [args EXCEPT ![k] = raw_get(o, o.idx)])

\* visit(vis, vars...): return std::visit(vis, forward(vars._impl)...), which
\* throws std::bad_variant_access when one of the variants holds no value
\* and otherwise invokes vis on the held values.  objs are the distinct
\* objects visited and refs[k] the object passed as k-th variant; calls
\* lists the invocations of the visitor, objs the objects afterwards.
visit(objs, refs, list, mode, fail) ==
    IF \E k \in DOMAIN refs : objs[refs[k]].idx = variant_npos
    THEN [out |-> "throw", calls |-> <<>>, result |-> NoResult, objs |-> objs]
    ELSE LET case == [k \in DOMAIN refs |-> objs[refs[k]].idx]
             live == [k \in DOMAIN refs |->
                         raw_get(objs[refs[k]], objs[refs[k]].idx)]
             p    == IF mode = "value"
                     THEN pass_by_value(Len(refs), objs, refs, list, fail,
                                        live)
                     ELSE [out |-> "ok", objs |-> objs, args |-> live]
         IN  IF p.out = "throw"
             THEN [out |-> "throw", calls |-> <<>>, result |-> NoResult,
                   objs |-> p.objs]
             ELSE [out    |-> "ok",
                   calls  |-> <<[case |-> case, args |-> p.args]>>,
                   result |-> visitor_case(case, p.args),
                   objs   |-> p.objs]

(***************************************************************************)
(* The program: Variant<Ts...> objects and the operations on them.         *)
(***************************************************************************)
\* The instantiations Variant<Ts...> that are exercised.
AltLists ==
    { <<"int", "A", "B", "P">>,
      <<"string", "cstr">>,
      <<"long", "int">>,
      <<"Monostate", "X">>,
      <<"string", "S">> }

\* The objects of a program with two variants, and of one with three.
TwoObjects == {1, 2}

ThreeObjects == {1, 2, 3}

\* Stands for "no second operand" in the record of the last operation.
NoVariant == [idx |-> -2, store |-> {}]

VARIABLES
    Ts,          \* the template arguments of Variant<Ts...>
    var,         \* var[x]: the Variant object in slot x
    last,        \* the call that just returned: operands before it,
                 \* outcome, lifetime events on the storage of *this
    pc,          \* "ready": between two calls; "returned": a call ended
    terminated   \* std::terminate was called

vars == <<Ts, var, last, pc, terminated>>

\* The objects of the program.
Slots == DOMAIN var

\* No call has ended since the caller last went on.
NoCall ==
    [op |-> "none", x |-> 0, y |-> 0, pre |-> NoVariant, src |-> NoVariant,
     from |-> "none", cat |-> "r", tag |-> "none", j |-> -2, val |-> -1,
     out |-> "ok", ev |-> <<>>, calls |-> <<>>, result |-> NoResult,
     found |-> "none"]

\* op ran on slot x with slot y as its other operand (0: none) or with an
\* argument of type from, value category cat (an rvalue unless the action
\* says otherwise) and payload val; j is the alternative it selects;
\* tag is the type named by an in_place_type_t<T> or get<T>; calls and
\* result are the visitor invocations and the return value of a visit;
\* found is the type a registry look-up yields.
Record(op, x, y, from, j, val, out, ev) ==
    [op |-> op, x |-> x, y |-> y, pre |-> var[x],
     src |-> IF y = 0 THEN NoVariant ELSE var[y],
     from |-> from, cat |-> "r", tag |-> "none", j |-> j, val |-> val,
     out |-> out, ev |-> ev, calls |-> <<>>, result |-> NoResult,
     found |-> "none"]

Init ==
    /\ Ts \in AltLists
    /\ is_default_constructible_v(Ts[1])
    /\ var = [x \in TwoObjects |-> default_ctor.v]
    /\ last = NoCall
    /\ pc = "ready"
    /\ terminated = FALSE

\* A constructor ran for slot x: the slot is rebound to the new object, or
\* keeps the old one when the constructor threw.
Construct(op, x, y, from, j, val, r) ==
    /\ var' = [var EXCEPT ![x] = IF r.out = "ok" THEN r.v ELSE @]
    /\ last' = Record(op, x, y, from, j, val, r.out, r.ev)
    /\ terminated' = (r.out = "terminate")
    /\ pc' = "returned"
    /\ UNCHANGED Ts

\* A member function ran on the object in slot x.
Mutate(op, x, y, from, j, val, r) ==
    /\ var' = [var EXCEPT ![x] = r.v]
    /\ last' = Record(op, x, y, from, j, val, r.out, r.ev)
    /\ terminated' = (r.out = "terminate")
    /\ pc' = "returned"
    /\ UNCHANGED Ts

\* A member function ran on the object in slot x with the argument arg.
MutateFrom(op, x, arg, j, val, r) ==
    /\ var' = [var EXCEPT ![x] = r.v]
    /\ last' = [Record(op, x, 0, arg[1], j, val, r.out, r.ev)
                  EXCEPT !.cat = arg[2]]
    /\ terminated' = (r.out = "terminate")
    /\ pc' = "returned"
    /\ UNCHANGED Ts

DefaultCtor(x) ==
    /\ pc = "ready"
    /\ default_ctor_enabled(Ts)
    /\ Construct("DefaultCtor", x, 0, "none", 0, 0, default_ctor)

CopyCtor(x, y) ==
    /\ pc = "ready"
    /\ x # y
    /\ \E fail \in BOOLEAN :
          Construct("CopyCtor", x, y, "none", var[y].idx, -1,
                    copy_ctor(var[y], Ts, fail))

MoveCtor(x, y) ==
    /\ pc = "ready"
    /\ x # y
    /\ \E fail \in BOOLEAN :
          LET r == move_ctor(var[y], Ts, fail)
          IN  /\ var' = [var EXCEPT
                           ![x] = IF r.out = "ok" THEN r.v ELSE @,
                           ![y] = IF r.out = "ok" THEN moved_from(@, Ts) ELSE @]
              /\ last' = Record("MoveCtor", x, y, "none", var[y].idx, -1,
                               r.out, r.ev)
              /\ terminated' = (r.out = "terminate")
              /\ pc' = "returned"
              /\ UNCHANGED Ts

ConvertingCtor(x, arg, val) ==
    /\ pc = "ready"
    /\ converting_enabled(arg[1], Ts)
    /\ \E fail \in BOOLEAN :
          Construct("ConvertingCtor", x, 0, arg[1],
                    accepted_index(arg[1], Ts), val,
                    converting_ctor(Ts, arg[1], arg[2], val, fail))

\* Variant& operator=(const Variant& rhs) { _impl = rhs._impl; }
CopyAssign(x, y) ==
    /\ pc = "ready"
    /\ x # y
    /\ S_copy_assign(Ts)
    /\ \E fail \in BOOLEAN :
          Mutate("CopyAssign", x, y, "none", var[y].idx, -1,
                 copy_assign(var[x], Ts, var[y], fail))

\* Variant& operator=(Variant&& rhs) { _impl = std::move(rhs._impl); }
\* x = y is the self-assignment v = std::move(v): the value is assigned
\* from itself and left as a moved-from value.
MoveAssign(x, y) ==
    /\ pc = "ready"
    /\ S_move_assign(Ts)
    /\ \E fail \in BOOLEAN :
          LET r0 == move_assign(var[x], Ts, var[y], fail)
              r  == Step(r0.v, Leave(r0.out, move_assign_noexcept(Ts)), r0.ev)
          IN  /\ var' = [var EXCEPT
                           ![x] = r.v,
                           ![y] = IF r.out = "ok" THEN moved_from(@, Ts) ELSE @]
              /\ last' = Record("MoveAssign", x, y, "none", var[y].idx, -1,
                               r.out, r.ev)
              /\ terminated' = (r.out = "terminate")
              /\ pc' = "returned"
              /\ UNCHANGED Ts

\* Variant& operator=(T&& t)
ConvertingAssign(x, arg, val) ==
    /\ pc = "ready"
    /\ S_copy_assign(Ts)
    /\ converting_enabled(arg[1], Ts)
    /\ \E fail1 \in Faults, fail2 \in BOOLEAN :
          MutateFrom("ConvertingAssign", x, arg,
                     accepted_index(arg[1], Ts), val,
                     Variant_conv_assign(var[x], Ts, arg[1], arg[2], val,
                                         fail1, fail2))

\* emplace<I>(args...) { return _impl.template emplace<I>(args...); }
EmplaceIndex(x, I, arg, val) ==
    /\ pc = "ready"
    /\ is_in_range_v(I, Ts)
    /\ is_constructible_v(variant_alternative_t(I, Ts), arg[1])
    /\ \E fail \in BOOLEAN :
          MutateFrom("EmplaceIndex", x, arg, I, val,
                     emplace(var[x], Ts, I, arg[1], arg[2], val, fail))

\* emplace<T>(args...) { return emplace<element_pos_v<T, Ts...>>(args...); }
EmplaceType(x, T, arg, val) ==
    /\ pc = "ready"
    /\ is_constructible_v(T, arg[1])
    /\ is_unique_v(T, Ts)
    /\ \E fail \in BOOLEAN :
          MutateFrom("EmplaceType", x, arg, element_pos(T, Ts), val,
                     emplace(var[x], Ts, element_pos(T, Ts), arg[1], arg[2],
                             val, fail))

\* emplace<I>(std::initializer_list<U> il, Args&&... args)
\*   { return _impl.template emplace<I, U, Args...>(il, args...); }
EmplaceIndexIl(x, I, val) ==
    /\ pc = "ready"
    /\ is_in_range_v(I, Ts)
    /\ is_constructible_from_il(variant_alternative_t(I, Ts))
    /\ \E fail \in BOOLEAN :
          Mutate("EmplaceIndexIl", x, 0, "ilist", I, val,
                 emplace(var[x], Ts, I, "ilist", "r", val, fail))

\* emplace<T>(std::initializer_list<U> il, Args&&... args)
\*   { return _impl.template emplace<T>(il, args...); }
EmplaceTypeIl(x, T, val) ==
    /\ pc = "ready"
    /\ is_constructible_from_il(T)
    /\ is_unique_v(T, Ts)
    /\ \E fail \in BOOLEAN :
          Mutate("EmplaceTypeIl", x, 0, "ilist", element_pos(T, Ts), val,
                 emplace(var[x], Ts, element_pos(T, Ts), "ilist", "r", val,
                         fail))

\* void swap(Variant& rhs) { _impl.swap(rhs._impl); }
Swap(x, y) ==
    /\ pc = "ready"
    /\ x # y
    /\ swap_compiles(Ts)
    /\ \E fail \in 0..3 :
          LET r0 == variant_swap(var[x], var[y], Ts, fail)
              out == Leave(r0.out, swap_noexcept(Ts))
          IN  /\ var' = [var EXCEPT ![x] = r0.v, ![y] = r0.w]
              /\ last' = Record("Swap", x, y, "none", var[y].idx, -1, out, r0.ev)
              /\ terminated' = (out = "terminate")
              /\ pc' = "returned"
              /\ UNCHANGED Ts

\* swap(lhs, rhs), the free function.
FreeSwap(x, y) ==
    /\ pc = "ready"
    /\ x # y
    /\ swap_compiles(Ts)
    /\ \E fail \in 0..3 :
          LET r == free_swap(var[x], var[y], Ts, fail)
          IN  /\ var' = [var EXCEPT ![x] = r.v, ![y] = r.w]
              /\ last' = Record("FreeSwap", x, y, "none", var[y].idx, -1,
                               r.out, r.ev)
              /\ terminated' = (r.out = "terminate")
              /\ pc' = "returned"
              /\ UNCHANGED Ts

\* explicit Variant(in_place_index_t<I>, Args&&... args)
InPlaceIndexCtor(x, I, arg, val) ==
    /\ pc = "ready"
    /\ in_place_index_enabled(I, arg[1], Ts)
    /\ impl_in_place_ok(I, arg[1], Ts)
    /\ \E fail \in BOOLEAN :
          Construct("InPlaceIndexCtor", x, 0, arg[1], I, val,
                    in_place_ctor(Ts, I, arg[1], arg[2], val, fail))

\* explicit Variant(in_place_index_t<I>, std::initializer_list<U> il,
\*                  Args&&... args)
InPlaceIndexIlCtor(x, I, val) ==
    /\ pc = "ready"
    /\ in_place_index_il_enabled(I, Ts)
    /\ impl_in_place_ok(I, "ilist", Ts)
    /\ \E fail \in BOOLEAN :
          Construct("InPlaceIndexIlCtor", x, 0, "ilist", I, val,
                    in_place_ctor(Ts, I, "ilist", "r", val, fail))

\* explicit Variant(in_place_type_t<T>, Args&&... args)
\*   : _impl(std::in_place_type_t<T>{}, std::forward<Args>(args)...)
InPlaceTypeCtor(x, T, arg, val) ==
    /\ pc = "ready"
    /\ in_place_type_enabled(T, arg[1], Ts)
    /\ \E fail \in BOOLEAN :
          LET r == in_place_ctor(Ts, element_pos(T, Ts), arg[1], arg[2], val,
                                 fail)
          IN  /\ var' = [var EXCEPT ![x] = IF r.out = "ok" THEN r.v ELSE @]
              /\ last' = [Record("InPlaceTypeCtor", x, 0, arg[1],
                                 element_pos(T, Ts), val, r.out, r.ev)
                            EXCEPT !.tag = T]
              /\ terminated' = FALSE
              /\ pc' = "returned"
              /\ UNCHANGED Ts

\* explicit Variant(in_place_type_t<T>, std::initializer_list<U> il,
\*                  Args&&... args)
\*   : _impl(std::in_place_type_t<T>{}, il, std::forward<Args>(args)...)
InPlaceTypeIlCtor(x, T, val) ==
    /\ pc = "ready"
    /\ in_place_type_il_enabled(T, Ts)
    /\ \E fail \in BOOLEAN :
          LET r == in_place_ctor(Ts, element_pos(T, Ts), "ilist", "r", val,
                                 fail)
          IN  /\ var' = [var EXCEPT ![x] = IF r.out = "ok" THEN r.v ELSE @]
              /\ last' = [Record("InPlaceTypeIlCtor", x, 0, "ilist",
                                 element_pos(T, Ts), val, r.out, r.ev)
                            EXCEPT !.tag = T]
              /\ terminated' = FALSE
              /\ pc' = "returned"
              /\ UNCHANGED Ts

\* get<I>(v); the record keeps the value referred to in val.
GetIndex(x, I) ==
    /\ pc = "ready"
    /\ is_in_range_v(I, Ts)
    /\ LET r == get(var[x], I)
       IN  Mutate("GetIndex", x, 0, "none", I, r.val,
                  Step(var[x], r.out, <<>>))

\* get<T>(v); std::get<T> requires T to occur exactly once.
GetType(x, T) ==
    /\ pc = "ready"
    /\ is_unique_v(T, Ts)
    /\ LET r == get_type(var[x], T, Ts)
       IN  /\ last' = [Record("GetType", x, 0, "none", element_pos(T, Ts),
                              r.val, r.out, <<>>)
                         EXCEPT !.tag = T]
           /\ terminated' = FALSE
           /\ pc' = "returned"
           /\ UNCHANGED <<Ts, var>>

\* visit(vis, v), visit(vis, v, w) and visit(vis, v, v)
Visit(x, y, mode) ==
    /\ pc = "ready"
    /\ \E fail \in 0..2 :
          LET objs == IF y \in {0, x} THEN <<var[x]>> ELSE <<var[x], var[y]>>
              refs == IF y = 0 THEN <<1>>
                      ELSE IF y = x THEN <<1, 1>> ELSE <<1, 2>>
              r    == visit(objs, refs, Ts, mode, fail)
          IN  /\ var' = [z \in Slots |->
                            IF z = x THEN r.objs[1]
                            ELSE IF z = y THEN r.objs[2] ELSE var[z]]
              /\ last' = [Record("Visit", x, y, "none", var[x].idx, -1,
                                 r.out, <<>>)
                            EXCEPT !.calls = r.calls, !.result = r.result]
              /\ terminated' = FALSE
              /\ pc' = "returned"
              /\ UNCHANGED Ts

\* The caller goes on to its next statement; a program that called
\* std::terminate does not.
Continue ==
    /\ pc = "returned"
    /\ ~terminated
    /\ pc' = "ready"
    /\ last' = NoCall
    /\ UNCHANGED <<Ts, var, terminated>>

Next ==
    \/ \E x \in Slots : DefaultCtor(x)
    \/ \E x, y \in Slots : CopyCtor(x, y)
    \/ \E x, y \in Slots : MoveCtor(x, y)
    \/ \E x \in Slots, arg \in ArgKinds, val \in Values :
          ConvertingCtor(x, arg, val)
    \/ \E x, y \in Slots : CopyAssign(x, y)
    \/ \E x, y \in Slots : MoveAssign(x, y)
    \/ \E x \in Slots, arg \in ArgKinds, val \in Values :
          ConvertingAssign(x, arg, val)
    \/ \E x \in Slots, I \in 0..3, arg \in ArgKinds, val \in Values :
          EmplaceIndex(x, I, arg, val)
    \/ \E x \in Slots, T \in Types, arg \in ArgKinds, val \in Values :
          EmplaceType(x, T, arg, val)
    \/ \E x \in Slots, I \in 0..3, val \in Values : EmplaceIndexIl(x, I, val)
    \/ \E x \in Slots, T \in Types, val \in Values : EmplaceTypeIl(x, T, val)
    \/ \E x, y \in Slots : Swap(x, y)
    \/ \E x, y \in Slots : FreeSwap(x, y)
    \/ \E x \in Slots, I \in 0..3, arg \in InPlaceArgKinds, val \in Values :
          InPlaceIndexCtor(x, I, arg, val)
    \/ \E x \in Slots, I \in 0..3, val \in Values :
          InPlaceIndexIlCtor(x, I, val)
    \/ \E x \in Slots, T \in Types, arg \in InPlaceArgKinds, val \in Values :
          InPlaceTypeCtor(x, T, arg, val)
    \/ \E x \in Slots, T \in Types, val \in Values :
          InPlaceTypeIlCtor(x, T, val)
    \/ \E x \in Slots, I \in 0..3 : GetIndex(x, I)
    \/ \E x \in Slots, T \in Types : GetType(x, T)
    \/ \E x \in Slots, y \in Slots \cup {0}, mode \in VisitorModes :
          Visit(x, y, mode)
    \/ Continue

Spec == Init /\ [][Next]_vars

(***************************************************************************)
(* A program with three variants: a source, a copy of it and a third       *)
(* object to exchange the source or the copy with.                         *)
(***************************************************************************)
CopyLists == {<<"string", "cstr">>, <<"int", "A">>}

CopyInit ==
    /\ Ts \in CopyLists
    /\ var = [x \in ThreeObjects |-> default_ctor.v]
    /\ last = NoCall
    /\ pc = "ready"
    /\ terminated = FALSE

\* Copy and move construction, and every member that assigns, emplaces or
\* swaps.
CopyNext ==
    \/ \E x, y \in Slots : CopyCtor(x, y)
    \/ \E x, y \in Slots : MoveCtor(x, y)
    \/ \E x, y \in Slots : CopyAssign(x, y)
    \/ \E x, y \in Slots : MoveAssign(x, y)
    \/ \E x \in Slots, arg \in ArgKinds, val \in Values :
          ConvertingAssign(x, arg, val)
    \/ \E x \in Slots, I \in 0..1, arg \in ArgKinds, val \in Values :
          EmplaceIndex(x, I, arg, val)
    \/ \E x \in Slots, T \in Types, arg \in ArgKinds, val \in Values :
          EmplaceType(x, T, arg, val)
    \/ \E x \in Slots, I \in 0..1, val \in Values : EmplaceIndexIl(x, I, val)
    \/ \E x \in Slots, T \in Types, val \in Values : EmplaceTypeIl(x, T, val)
    \/ \E x, y \in Slots : Swap(x, y)
    \/ \E x, y \in Slots : FreeSwap(x, y)
    \/ Continue

CopySpec == CopyInit /\ [][CopyNext]_vars

TypeOK ==
    /\ Ts \in AltLists \cup CopyLists
    /\ terminated \in BOOLEAN
    /\ pc \in {"ready", "returned"}
    /\ \A x \in Slots : var[x].idx \in -1..(Len(Ts) - 1)

(***************************************************************************)
(* The helpers of ara/internal/type_traits.h applied to arbitrary type     *)
(* lists: empty ones and ones with repeated types included.                *)
(***************************************************************************)
MaxLen == 3

RegTypes == {"int", "long", "A"}

Conditions == {"is_same", "is_convertible"}

TypeLists == UNION {[1..n -> RegTypes] : n \in 0..MaxLen}

RegInit ==
    /\ Ts \in TypeLists
    /\ var = [x \in TwoObjects |-> NoVariant]
    /\ last = NoCall
    /\ pc = "ready"
    /\ terminated = FALSE

\* A helper was instantiated: only the record of the call changes.
Instantiate(rec) ==
    /\ last' = rec
    /\ pc' = "returned"
    /\ UNCHANGED <<Ts, var, terminated>>

\* element_pos_v<T, Ts...>
ElementPos(T) ==
    /\ pc = "ready"
    /\ Instantiate([NoCall EXCEPT !.op = "element_pos", !.tag = T,
                                 !.val = element_pos(T, Ts)])

\* type_occurrence_v<Condition, T, Ts...>
TypeOccurrence(name, T) ==
    /\ pc = "ready"
    /\ Instantiate([NoCall EXCEPT !.op = "type_occurrence", !.from = name,
                                 !.tag = T,
                                 !.val = type_occurrence(name, T, Ts)])

\* is_unique_v<T, Ts...>; val is 1 for true and 0 for false.
IsUnique(T) ==
    /\ pc = "ready"
    /\ Instantiate([NoCall EXCEPT !.op = "is_unique_v", !.tag = T,
                                 !.val = IF is_unique_v(T, Ts) THEN 1 ELSE 0])

\* find_matching_type_t<Condition, T, Ts...> and
\* find_matching_index_v<Condition, T, Ts...>; neither exists when no entry
\* matches.
FindMatchingType(name, T) ==
    /\ pc = "ready"
    /\ LET E == find_matching_type(name, T, Ts)
       IN  Instantiate([NoCall EXCEPT
                       !.op = "find_matching_type", !.from = name, !.tag = T,
                       !.found = E,
                       !.out = IF E = "none" THEN "ill-formed" ELSE "ok",
                       !.j = IF E = "none" THEN -2
                             ELSE find_matching_index_v(name, T, Ts)])

RegNext ==
    \/ \E T \in RegTypes : ElementPos(T)
    \/ \E name \in Conditions, T \in RegTypes : TypeOccurrence(name, T)
    \/ \E T \in RegTypes : IsUnique(T)
    \/ \E name \in Conditions, T \in RegTypes : FindMatchingType(name, T)
    \/ Continue

RegistrySpec == RegInit /\ [][RegNext]_vars

(***************************************************************************)
(* ara/core/string.h: the relational operators between a BasicString and a *)
(* null-terminated character string.  A string is the sequence of its      *)
(* character codes.                                                        *)
(***************************************************************************)
MaxStrLen == 2

\* The characters of a C string (never 0) and of a BasicString.
CStrChars == 1..2

BsChars == 0..2

CStrings == UNION {[1..n -> CStrChars] : n \in 0..MaxStrLen}

BasicStrings == UNION {[1..n -> BsChars] : n \in 0..MaxStrLen}

\* _data.compare(s): the difference at the first position where the two
\* differ, the difference of the lengths when one is a prefix of the other.
RECURSIVE compare(_, _)
compare(a, b) ==
    IF a = <<>> \/ b = <<>> THEN Len(a) - Len(b)
    ELSE IF Head(a) # Head(b) THEN Head(a) - Head(b)
    ELSE compare(Tail(a), Tail(b))

\* operator OP (const BasicString& bs, const char* s)
rel_bs_cstr(OP, bs, s) ==
    IF OP = "<" THEN compare(bs, s) < 0
    ELSE IF OP = ">" THEN compare(bs, s) > 0
    ELSE IF OP = "<=" THEN compare(bs, s) <= 0
    ELSE compare(bs, s) >= 0

\* A variant of the operators with the C string on the left that does not
\* turn the comparison around.
rel_cstr_bs_unmirrored(OP, s, bs) == rel_bs_cstr(OP, bs, s)

\* operator OP (const char* s, const BasicString& bs)
rel_cstr_bs(OP, s, bs) ==
    IF OP = "<" THEN compare(bs, s) > 0
    ELSE IF OP = ">" THEN compare(bs, s) < 0
    ELSE IF OP = "<=" THEN compare(bs, s) >= 0
    ELSE compare(bs, s) <= 0

OrderOps == {"<", ">", "<=", ">="}

\* Slot 1 holds the BasicString, slot 2 the C string.
StrInit ==
    /\ Ts = <<>>
    /\ var \in [TwoObjects -> BasicStrings]
    /\ var[2] \in CStrings
    /\ last = NoCall
    /\ pc = "ready"
    /\ terminated = FALSE

\* bs OP s
RelBsCstr(OP) ==
    /\ pc = "ready"
    /\ last' = [NoCall EXCEPT !.op = "rel_bs_cstr", !.from = OP,
                              !.val = IF rel_bs_cstr(OP, var[1], var[2])
                                      THEN 1 ELSE 0]
    /\ pc' = "returned"
    /\ UNCHANGED <<Ts, var, terminated>>

\* s OP bs
RelCstrBs(OP) ==
    /\ pc = "ready"
    /\ last' = [NoCall EXCEPT !.op = "rel_cstr_bs", !.from = OP,
                              !.val = IF rel_cstr_bs(OP, var[2], var[1])
                                      THEN 1 ELSE 0]
    /\ pc' = "returned"
    /\ UNCHANGED <<Ts, var, terminated>>

StrNext ==
    \/ \E OP \in OrderOps : RelBsCstr(OP)
    \/ \E OP \in OrderOps : RelCstrBs(OP)
    \/ Continue

StringSpec == StrInit /\ [][StrNext]_vars

(***************************************************************************)
(* Vocabulary of the properties.                                           *)
(***************************************************************************)
Returned == pc = "returned"

Assignments == {"CopyAssign", "MoveAssign", "ConvertingAssign"}

Emplaces == {"EmplaceIndex", "EmplaceType", "EmplaceIndexIl", "EmplaceTypeIl"}

Swaps == {"Swap", "FreeSwap"}

Constructors ==
    {"DefaultCtor", "CopyCtor", "MoveCtor", "ConvertingCtor",
     "InPlaceIndexCtor", "InPlaceIndexIlCtor", "InPlaceTypeCtor",
     "InPlaceTypeIlCtor"}

\* The object the last call ran on, as it is now.
Target == var[last.x]

Failed == last.out # "ok"

HasEvent(e) == \E k \in 1..Len(last.ev) : last.ev[k] = e

\* An assignment that resolved to an alternative other than the held one.
CrossIndex ==
    /\ last.op \in Assignments
    /\ last.j # variant_npos
    /\ last.j # last.pre.idx

\* An assignment that resolved to the alternative already held.
SameIndex ==
    /\ last.op \in Assignments
    /\ last.j # variant_npos
    /\ last.j = last.pre.idx

\* The value the last assignment or emplace was asked to store.
AssignedValue ==
    IF last.from = "none"
    THEN raw_get(last.src, last.j)
    ELSE Convert(last.from, variant_alternative_t(last.j, Ts), last.val)

\* C1: after any sequence of constructions, assignments, emplace calls and
\* swaps, failed ones included, every variant either holds exactly one live
\* value, of the alternative index() reports, or holds no value at all and
\* reports variant_npos and valueless_by_exception().
C1_ExactlyOneState ==
    \A x \in Slots :
        /\ Cardinality(var[x].store) <= 1
        /\ \A i \in 0..(Len(Ts) - 1) :
              index(var[x]) = i <=>
                  (\E val \in Values : var[x].store = {<<i, val>>})
        /\ index(var[x]) = variant_npos <=>
              (valueless_by_exception(var[x]) /\ var[x].store = {})
        /\ index(var[x]) \in (0..(Len(Ts) - 1)) \cup {variant_npos}

C1_Witness ==
    /\ Returned
    /\ last.out = "throw"
    /\ last.op \in Emplaces
    /\ \E x, y \in Slots :
          /\ valueless_by_exception(var[x])
          /\ index(var[y]) = 1

\* C2: when an assignment resolves to an alternative other than the held
\* one and building the new value fails, the failure reaches the caller as
\* an exception and the target is left without a value.
C2_FailedCrossIndexAssignment ==
    (Returned /\ CrossIndex /\ Failed /\ ~HasEvent("ctor"))
        => (last.out = "throw" /\ valueless_by_exception(Target))

\* A variant that has no value now and had one before the last call (for a
\* constructor: the newly built object has none).
NewlyValuelessTarget ==
    /\ valueless_by_exception(Target)
    /\ IF last.op \in Constructors
       THEN last.out = "ok"
       ELSE ~valueless_by_exception(last.pre)

NewlyValuelessOther ==
    /\ last.y # 0
    /\ valueless_by_exception(var[last.y])
    /\ ~valueless_by_exception(last.src)

\* C3 as stated: a variant loses its value only in a failed construction
\* during a cross-index assignment or an emplace performed on it.
C3_OnlyFailedConstruction ==
    Returned =>
        /\ NewlyValuelessTarget =>
              ((last.op \in Emplaces \/ CrossIndex) /\ Failed)
        /\ ~NewlyValuelessOther

\* C3 amended: a variant loses its value only (a) in a failed construction
\* during a cross-index assignment or an emplace performed on it, (b) by a
\* copy or move construction or assignment from a source without a value,
\* or (c) in a swap that fails or whose other operand has no value.
C3_ValuelessOrigins ==
    Returned =>
        /\ NewlyValuelessTarget =>
              \/ (last.op \in Emplaces \/ CrossIndex) /\ Failed
              \/ /\ last.op \in {"CopyCtor", "MoveCtor", "CopyAssign",
                                 "MoveAssign"}
                 /\ valueless_by_exception(last.src)
              \/ /\ last.op \in Swaps
                 /\ (Failed \/ valueless_by_exception(last.src))
        /\ NewlyValuelessOther =>
              /\ last.op \in Swaps
              /\ (Failed \/ valueless_by_exception(last.pre))

C3_Witness ==
    /\ Returned
    /\ last.op = "CopyAssign"
    /\ valueless_by_exception(last.src)
    /\ ~valueless_by_exception(last.pre)
    /\ valueless_by_exception(Target)

\* C4: an assignment that resolves to the alternative already held leaves
\* the discriminant as it was and never leaves the target without a value,
\* also when the alternative's assignment operator throws.
C4_SameIndexKeepsDiscriminant ==
    (Returned /\ SameIndex) =>
        /\ ~valueless_by_exception(Target)
        /\ index(Target) = last.pre.idx

C4_Witness ==
    /\ Returned
    /\ SameIndex
    /\ last.out = "throw"
    /\ HasEvent("assign")
    /\ index(Target) = last.pre.idx

\* The conversion of the argument to the held alternative threw before the
\* assignment began: nothing ran on the target, which is as it was.
ConversionThrew ==
    /\ last.op = "ConvertingAssign"
    /\ Failed
    /\ assigns_through_conversion(variant_alternative_t(last.j, Ts), last.from)
    /\ last.ev = <<>>
    /\ Target = last.pre

C6_FailedEmplaceValueless ==
    (Returned /\ last.op \in Emplaces /\ Failed) =>
        /\ last.out = "throw"
        /\ valueless_by_exception(Target)

\* emplace builds the new value outside the storage of the variant: the
\* emplaced alternative is a scalar, or it is a never-valueless type
\* (trivially copyable and small, or std::string) and every alternative of
\* the variant is move constructible and move assignable.
BuiltOutsideStorage ==
    \/ is_scalar_v(variant_alternative_t(last.j, Ts))
    \/ /\ Never_valueless_alt(variant_alternative_t(last.j, Ts))
       /\ S_move_assign(Ts)

\* C6 amended: a failed emplace always reaches the caller as an exception,
\* whatever was held before; the variant keeps the state it had before the
\* call when the emplaced alternative is a scalar, or is a never-valueless
\* type in a variant whose alternatives are all move constructible and move
\* assignable, and is left without a value in every other case.
C6_FailedEmplace ==
    (Returned /\ last.op \in Emplaces /\ Failed) =>
        /\ last.out = "throw"
        /\ IF BuiltOutsideStorage
           THEN Target = last.pre
           ELSE valueless_by_exception(Target)

\* A failed emplace of the std::string that is held, in a variant with an
\* alternative that cannot be move-assigned: the string is lost.
C6_Witness ==
    /\ Returned
    /\ last.op \in Emplaces
    /\ Failed
    /\ last.pre.idx = last.j
    /\ Never_valueless_alt(variant_alternative_t(last.j, Ts))
    /\ ~S_move_assign(Ts)
    /\ valueless_by_exception(Target)

\* C7: after a successful emplace from any prior state, index() is the
\* selected position and get on it yields the value built from the
\* arguments.
C7_SuccessfulEmplace ==
    (Returned /\ last.op \in Emplaces /\ last.out = "ok") =>
        /\ index(Target) = last.j
        /\ get(Target, last.j) = [out |-> "ok", val |-> AssignedValue]

C7_Witness ==
    /\ Returned
    /\ last.op \in Emplaces
    /\ last.out = "ok"
    /\ valueless_by_exception(last.pre)
    /\ index(Target) = Len(Ts) - 1

\* Every constructor run on the storage comes after a destructor run.
DestroyedBeforeBuilt ==
    \A k \in 1..Len(last.ev) :
        last.ev[k] = "ctor" => \E m \in 1..(k - 1) : last.ev[m] = "dtor"

\* C8 as stated: in every emplace and every cross-index assignment on a
\* variant that holds a value, the old value is destroyed before the new one
\* is constructed in the storage, and emplace never assigns to the old value.
C8_DestroyThenConstruct ==
    (Returned /\ (last.op \in Emplaces \/ CrossIndex)
              /\ ~valueless_by_exception(last.pre)) =>
        /\ DestroyedBeforeBuilt
        /\ last.op \in Emplaces => ~HasEvent("assign")

\* emplace builds the new value in a temporary variant and move-assigns it:
\* the construction from the arguments may throw, the emplaced alternative
\* is a never-valueless class type, and every alternative of the variant is
\* move constructible and move assignable.
EmplaceViaTemporary ==
    /\ ~is_nothrow_constructible_v(variant_alternative_t(last.j, Ts),
                                   last.from, last.cat)
    /\ ~is_scalar_v(variant_alternative_t(last.j, Ts))
    /\ Never_valueless_alt(variant_alternative_t(last.j, Ts))
    /\ S_move_assign(Ts)

\* C8 amended: whenever an emplace or a cross-index assignment constructs a
\* value in the storage of a variant that holds one, the old value is
\* destroyed first.  A successful emplace destroys the old value and then
\* constructs the new one in the storage, except when it goes through a
\* temporary variant (exactly the case of EmplaceViaTemporary): then it
\* copies the temporary member-wise when every alternative is trivially
\* assignable, move-assigns to the old value when the emplaced alternative
\* is the one held, and otherwise destroys the old value and move-constructs
\* the new one.  A failed emplace destroys the old value exactly when the
\* new one was being built in the storage.
C8_DestroyThenConstructInStorage ==
    (Returned /\ (last.op \in Emplaces \/ CrossIndex)
              /\ ~valueless_by_exception(last.pre)) =>
        /\ DestroyedBeforeBuilt
        /\ (last.op \in Emplaces /\ last.out = "ok") =>
              last.ev = IF ~EmplaceViaTemporary THEN <<"dtor", "ctor">>
                        ELSE IF S_trivial_assign(Ts) THEN <<>>
                        ELSE IF last.pre.idx = last.j THEN <<"assign">>
                        ELSE <<"dtor", "ctor">>
        /\ (last.op \in Emplaces /\ Failed) =>
              last.ev = IF BuiltOutsideStorage THEN <<>> ELSE <<"dtor">>

\* An emplace of the std::string that is held, from arguments whose
\* construction may throw, in a variant with an alternative that cannot be
\* move-assigned: the string is destroyed and a new one constructed.
C8_Witness ==
    /\ Returned
    /\ last.op \in Emplaces
    /\ last.out = "ok"
    /\ last.pre.idx = last.j
    /\ Never_valueless_alt(variant_alternative_t(last.j, Ts))
    /\ ~is_nothrow_constructible_v(variant_alternative_t(last.j, Ts),
                                   last.from, last.cat)
    /\ ~S_move_assign(Ts)
    /\ last.ev = <<"dtor", "ctor">>

\* C9: after a successful assignment that resolved to an alternative j other
\* than the current state, index() is j, get<j> yields the assigned value,
\* and get_if is null for every other alternative.
C9_SuccessfulCrossIndexAssignment ==
    (Returned /\ CrossIndex /\ last.out = "ok") =>
        /\ index(Target) = last.j
        /\ get(Target, last.j) = [out |-> "ok", val |-> AssignedValue]
        /\ \A i \in 0..(Len(Ts) - 1) :
              i # last.j => get_if(PtrTo(Target), i) = NullPtr

C9_Witness ==
    /\ Returned
    /\ CrossIndex
    /\ last.out = "ok"
    /\ last.op = "CopyAssign"
    /\ ~valueless_by_exception(last.pre)
    /\ get_if(PtrTo(Target), last.pre.idx) = NullPtr

\* C10: a converting construction from a value whose type is exactly one
\* alternative selects that alternative, whatever other alternatives the
\* value converts to and wherever they stand in the list.
C10_ExactMatchSelected ==
    (Returned /\ last.op = "ConvertingCtor" /\ last.out = "ok"
              /\ is_unique_v(last.from, Ts)) =>
        index(Target) = element_pos(last.from, Ts)

C10_Witness ==
    /\ Returned
    /\ last.op = "ConvertingCtor"
    /\ last.out = "ok"
    /\ Ts = <<"string", "cstr">>
    /\ last.from = "cstr"
    /\ index(Target) = 1

\* C11: when the argument type equals no alternative, converting
\* construction and converting assignment leave index() at the least i such
\* that the argument type is convertible to the i-th alternative.
C11_FirstConvertibleSelected ==
    (Returned /\ last.op \in {"ConvertingCtor", "ConvertingAssign"}
              /\ last.out = "ok"
              /\ type_occurrence("is_same", last.from, Ts) = 0) =>
        index(Target) = find_matching_index_v("is_convertible", last.from, Ts)

\* C12: the default constructor exists whenever the first alternative is
\* default-constructible, whatever the other alternatives are, and yields
\* index() == 0 with the value-initialised first alternative.
C12_DefaultConstruction ==
    /\ default_ctor_enabled(Ts) <=> is_default_constructible_v(Ts[1])
    /\ (Returned /\ last.op = "DefaultCtor") =>
          /\ last.out = "ok"
          /\ index(Target) = 0
          /\ get(Target, 0) = [out |-> "ok", val |-> 0]

C12_Witness ==
    /\ Returned
    /\ last.op = "DefaultCtor"
    /\ Ts = <<"Monostate", "X">>
    /\ ~is_default_constructible_v(Ts[2])
    /\ index(last.pre) = 1
    /\ index(Target) = 0

\* The value an in-place constructor was asked to build.
InPlaceValue ==
    IF last.from = "noargs" THEN 0
    ELSE IF last.from = "ilist" THEN last.val
    ELSE Convert(last.from, variant_alternative_t(last.j, Ts), last.val)

\* C13: in-place construction by index I yields index() == I and in-place
\* construction by a unique type T yields index() == Position(T), with the
\* value built from the arguments; the arguments play no part in choosing
\* the alternative.
C13_InPlaceSelectsByTag ==
    /\ (Returned /\ last.op \in {"InPlaceIndexCtor", "InPlaceIndexIlCtor"}
                 /\ last.out = "ok") =>
          /\ index(Target) = last.j
          /\ get(Target, last.j) = [out |-> "ok", val |-> InPlaceValue]
    /\ (Returned /\ last.op = "InPlaceTypeCtor" /\ last.out = "ok") =>
          /\ is_unique_v(last.tag, Ts)
          /\ index(Target) = element_pos(last.tag, Ts)
          /\ get_type(Target, last.tag, Ts) =
                [out |-> "ok", val |-> InPlaceValue]

C13_Witness ==
    /\ Returned
    /\ last.op = "InPlaceIndexCtor"
    /\ last.out = "ok"
    /\ Ts = <<"long", "int">>
    /\ last.from = "int"
    /\ accepted_index("int", Ts) = 1
    /\ index(Target) = 0

\* C14: the in-place-by-index constructors are available exactly when I is
\* in range and the I-th alternative is constructible from the arguments,
\* whatever the other alternatives are constructible from.
C14_InPlaceIndexAvailability ==
    \A I \in 0..Len(Ts) :
        /\ \A arg \in InPlaceArgKinds :
              (in_place_index_enabled(I, arg[1], Ts)
                 /\ impl_in_place_ok(I, arg[1], Ts))
              <=> (is_in_range_v(I, Ts)
                     /\ is_constructible_from_args(
                            variant_alternative_t(I, Ts), arg[1]))
        /\ (in_place_index_il_enabled(I, Ts)
              /\ impl_in_place_ok(I, "ilist", Ts))
           <=> (is_in_range_v(I, Ts)
                  /\ is_constructible_from_il(variant_alternative_t(I, Ts)))

\* One call: a copy or move construction yields the state its source had, a
\* copy construction or copy assignment leaves its source as it was, and no
\* call changes an object other than the ones it was made on.
C15_Call ==
    (pc = "ready" /\ pc' = "returned") =>
        /\ (last'.op \in {"CopyCtor", "MoveCtor"} /\ last'.out = "ok") =>
              var'[last'.x] = var[last'.y]
        /\ last'.op \in {"CopyCtor", "CopyAssign"} =>
              var'[last'.y] = var[last'.y]
        /\ \A z \in Slots \ {last'.x, last'.y} : var'[z] = var[z]

\* C15: a variant built by copy or move construction has the discriminant
\* and value its source had before; a copy construction or copy assignment
\* leaves its source as it was, and a call on one or two variants (an
\* assignment, an emplace, a swap, a construction, a visit) changes no
\* other variant, so a copy and its source never change together.
C15_ValueSemantics == [][C15_Call]_vars

\* The source was exchanged with a third object and changed; another
\* object still has the state the source had before.
C15_Witness ==
    /\ Returned
    /\ last.op \in Swaps
    /\ last.out = "ok"
    /\ Target # last.pre
    /\ \E z \in Slots \ {last.x, last.y} :
          /\ var[z] = last.pre
          /\ index(var[z]) = 1
          /\ raw_get(var[z], 1) = 1

\* C16: get<I>(v) and get<T>(v) return the live value exactly when the
\* selected index equals v.index(); otherwise, also when v is VALUELESS,
\* they raise an access error; either way v is left as it was.
C16_CheckedAccess ==
    (Returned /\ last.op \in {"GetIndex", "GetType"}) =>
        /\ last.out \in {"ok", "throw"}
        /\ last.out = "ok" <=> last.j = index(last.pre)
        /\ last.out = "ok" => last.val = raw_get(last.pre, last.j)
        /\ last.op = "GetType" => last.j = element_pos(last.tag, Ts)
        /\ Target = last.pre

C16_Witness ==
    /\ Returned
    /\ last.op \in {"GetIndex", "GetType"}
    /\ last.out = "throw"
    /\ valueless_by_exception(last.pre)
    /\ valueless_by_exception(Target)

\* C17: in every reachable state and for every alternative T, get_if<T>(&v)
\* is non-null iff holds_alternative<T>(v) iff v.index() == Position(T); a
\* VALUELESS v holds no alternative; get_if of a null pointer is null.
C17_GetIfAgreesWithHoldsAlternative ==
    \A x \in Slots :
        /\ \A T \in Types :
              is_unique_v(T, Ts) =>
                  /\ get_if_type(PtrTo(var[x]), T, Ts) # NullPtr
                        <=> holds_alternative(T, var[x], Ts)
                  /\ holds_alternative(T, var[x], Ts)
                        <=> var[x].idx = element_pos(T, Ts)
                  /\ holds_alternative(T, var[x], Ts) =>
                        get_if_type(PtrTo(var[x]), T, Ts) =
                            PtrTo(raw_get(var[x], element_pos(T, Ts)))
                  /\ valueless_by_exception(var[x]) =>
                        /\ ~holds_alternative(T, var[x], Ts)
                        /\ get_if_type(PtrTo(var[x]), T, Ts) = NullPtr
                  /\ get_if_type(NullPtr, T, Ts) = NullPtr
        /\ \A I \in 0..(Len(Ts) - 1) : get_if(NullPtr, I) = NullPtr

C17_Witness ==
    /\ pc = "ready"
    /\ \E x, y \in Slots :
          /\ valueless_by_exception(var[x])
          /\ holds_alternative("A", var[y], Ts)
          /\ get_if_type(PtrTo(var[y]), "A", Ts) # NullPtr
          /\ get_if_type(PtrTo(var[y]), "int", Ts) = NullPtr

\* The discriminant as a rank: VALUELESS below every alternative.
Rank(v) == IF valueless_by_exception(v) THEN -1 ELSE index(v)

\* The held values of two variants holding the same alternative compare
\* equal, or a's is less than b's.
SameValue(a, b) == raw_get(a, index(a)) = raw_get(b, index(b))

LessValue(a, b) ==
    /\ variant_alternative_t(index(a), Ts) # "Monostate"
    /\ raw_get(a, index(a)) < raw_get(b, index(b))

\* C18: a == b iff the discriminants are equal and either both are VALUELESS
\* or the held values compare equal; a != b is the negation of a == b.
C18_Equality ==
    \A x, y \in Slots :
        LET a == var[x]
            b == var[y]
        IN  /\ operator_eq(a, b, Ts) <=>
                  /\ index(a) = index(b)
                  /\ \/ valueless_by_exception(a) /\ valueless_by_exception(b)
                     \/ ~valueless_by_exception(a) /\ SameValue(a, b)
            /\ operator_ne(a, b, Ts) <=> ~operator_eq(a, b, Ts)

C18_Witness ==
    /\ pc = "ready"
    /\ valueless_by_exception(var[1])
    /\ valueless_by_exception(var[2])
    /\ operator_eq(var[1], var[2], Ts)
    /\ ~operator_ne(var[1], var[2], Ts)

\* C19: a < b iff a's discriminant is smaller than b's, VALUELESS counting
\* as smaller than every index, or both hold the same alternative and a's
\* value is less than b's.
C19_LessThan ==
    \A x, y \in Slots :
        LET a == var[x]
            b == var[y]
        IN  operator_lt(a, b, Ts) <=>
                \/ Rank(a) < Rank(b)
                \/ /\ Rank(a) = Rank(b)
                   /\ ~valueless_by_exception(a)
                   /\ LessValue(a, b)

C19_Witness ==
    /\ pc = "ready"
    /\ index(var[1]) = 0
    /\ index(var[2]) = 1
    /\ raw_get(var[1], 0) > raw_get(var[2], 1)
    /\ operator_lt(var[1], var[2], Ts)
    /\ ~operator_lt(var[2], var[1], Ts)

\* C20: the six operators describe one total order on the states of a
\* variant: exactly one of a < b, a == b, b < a holds; a > b iff b < a;
\* a <= b iff not b < a; a >= b iff not a < b; < is transitive.
C20_TotalOrder ==
    \A x, y \in Slots :
        LET a == var[x]
            b == var[y]
            lt == operator_lt(a, b, Ts)
            eq == operator_eq(a, b, Ts)
            gt == operator_lt(b, a, Ts)
        IN  /\ lt \/ eq \/ gt
            /\ ~(lt /\ eq) /\ ~(lt /\ gt) /\ ~(eq /\ gt)
            /\ operator_gt(a, b, Ts) <=> gt
            /\ operator_le(a, b, Ts) <=> ~gt
            /\ operator_ge(a, b, Ts) <=> ~lt
            /\ \A c \in VariantStates(Ts) :
                  (lt /\ operator_lt(b, c, Ts)) => operator_lt(a, c, Ts)

C20_Witness ==
    /\ pc = "ready"
    /\ valueless_by_exception(var[1])
    /\ index(var[2]) = 0
    /\ operator_lt(var[1], var[2], Ts)
    /\ operator_ge(var[2], var[1], Ts)
    /\ \E c \in VariantStates(Ts) :
          operator_lt(var[2], c, Ts) /\ operator_lt(var[1], c, Ts)

\* C21: after a.swap(b) or swap(a, b) on two variants that hold values, of
\* the same alternative or of different ones, a has the discriminant and
\* value b had and b has those a had; a second swap of the same pair brings
\* both back.
C21_SwapExchanges ==
    /\ (Returned /\ last.op \in Swaps /\ last.out = "ok"
                 /\ ~valueless_by_exception(last.pre)
                 /\ ~valueless_by_exception(last.src)) =>
          /\ Target = last.src
          /\ var[last.y] = last.pre
    /\ (~valueless_by_exception(var[1]) /\ ~valueless_by_exception(var[2])) =>
          LET once  == variant_swap(var[1], var[2], Ts, 0)
              twice == variant_swap(once.v, once.w, Ts, 0)
          IN  /\ once.v = var[2] /\ once.w = var[1]
              /\ twice.v = var[1] /\ twice.w = var[2]

C21_Witness ==
    /\ Returned
    /\ last.op = "FreeSwap"
    /\ last.out = "ok"
    /\ index(last.pre) = 0
    /\ index(last.src) = 1
    /\ raw_get(last.pre, 0) # raw_get(last.src, 1)
    /\ Target = last.src
    /\ var[last.y] = last.pre

\* The variants the last visit was applied to, as they were at the call.
Visited == IF last.y = 0 THEN <<last.pre>> ELSE <<last.pre, last.src>>

\* Exactly one case ran: the one for the discriminants of the visited
\* variants, applied to their values, and its result was returned.
OneCaseRan ==
    /\ last.out = "ok"
    /\ Len(last.calls) = 1
    /\ last.calls[1].case = [k \in DOMAIN Visited |-> index(Visited[k])]
    /\ last.calls[1].args =
          [k \in DOMAIN Visited |-> raw_get(Visited[k], index(Visited[k]))]
    /\ last.result = visitor_case(last.calls[1].case, last.calls[1].args)

\* C22 as stated: every call of visit invokes exactly one visitor case, the
\* one for the current discriminants applied to the live values, and
\* returns its result.
C22_VisitRunsOneCase ==
    (Returned /\ last.op = "Visit") =>
        /\ \A k \in DOMAIN Visited : ~valueless_by_exception(Visited[k])
        /\ OneCaseRan

\* C23: between two Monostate values ==, <= and >= return true and !=, <
\* and > return false; two variants holding Monostate therefore compare
\* equal under all six variant operators.
C23_MonostateAlwaysEqual ==
    /\ \A OP \in RelOps : Monostate_rel(OP) <=> OP \in {"==", "<=", ">="}
    /\ \A x, y \in Slots :
          (/\ is_unique_v("Monostate", Ts)
           /\ holds_alternative("Monostate", var[x], Ts)
           /\ holds_alternative("Monostate", var[y], Ts)) =>
              /\ operator_eq(var[x], var[y], Ts)
              /\ operator_le(var[x], var[y], Ts)
              /\ operator_ge(var[x], var[y], Ts)
              /\ ~operator_ne(var[x], var[y], Ts)
              /\ ~operator_lt(var[x], var[y], Ts)
              /\ ~operator_gt(var[x], var[y], Ts)

C23_Witness ==
    /\ Returned
    /\ last.op \in Emplaces
    /\ last.out = "ok"
    /\ index(last.pre) = 1
    /\ \A x \in Slots : holds_alternative("Monostate", var[x], Ts)
    /\ operator_eq(var[1], var[2], Ts)
    /\ operator_ge(var[1], var[2], Ts)

\* The positions of the list at which T stands, and those whose entry
\* satisfies the condition, counted from 1.
Occurrences(T) == {i \in 1..Len(Ts) : Ts[i] = T}

Matches(name, T) == {i \in 1..Len(Ts) : Condition(name, T, Ts[i])}

Least(S) == CHOOSE i \in S : \A k \in S : i <= k

\* C24: element_pos yields the smallest index at which T stands in the list,
\* the first one when T is repeated, and the length of the list when T does
\* not occur, 0 for the empty list.
C24_ElementPos ==
    (Returned /\ last.op = "element_pos") =>
        IF Occurrences(last.tag) = {}
        THEN last.val = Len(Ts)
        ELSE last.val = Least(Occurrences(last.tag)) - 1

C24_Witness ==
    /\ Returned
    /\ last.op = "element_pos"
    /\ Cardinality(Occurrences(last.tag)) = 2
    /\ last.val = 1

\* C25: when some entry satisfies the predicate, find_matching_type yields
\* the satisfying entry of smallest index and find_matching_index_v that
\* index; when none does, no result exists.
C25_FindMatchingType ==
    (Returned /\ last.op = "find_matching_type") =>
        IF Matches(last.from, last.tag) = {}
        THEN last.out = "ill-formed" /\ last.found = "none"
        ELSE /\ last.out = "ok"
             /\ last.found = Ts[Least(Matches(last.from, last.tag))]
             /\ last.j = Least(Matches(last.from, last.tag)) - 1

C25_Witness ==
    /\ Returned
    /\ last.op = "find_matching_type"
    /\ last.from = "is_convertible"
    /\ Cardinality(Matches(last.from, last.tag)) = 2
    /\ last.j = 1
    /\ last.found = Ts[2]
    /\ ~Condition(last.from, last.tag, Ts[1])
    /\ Condition(last.from, last.tag, Ts[3])

\* C26: type_occurrence is the number of list positions whose entry
\* satisfies the predicate, repeated types counted at each position, and
\* is_unique_v holds iff T stands at exactly one position.
C26_TypeOccurrence ==
    /\ (Returned /\ last.op = "type_occurrence") =>
          last.val = Cardinality(Matches(last.from, last.tag))
    /\ (Returned /\ last.op = "is_unique_v") =>
          (last.val = 1 <=> Cardinality(Occurrences(last.tag)) = 1)

C26_Witness ==
    /\ Returned
    /\ last.op = "type_occurrence"
    /\ last.from = "is_same"
    /\ last.val = 2
    /\ Len(Ts) = 3
    /\ ~is_unique_v(last.tag, Ts)

\* a comes before b in the lexicographic order of character sequences.
LexLess(a, b) ==
    \E k \in 0..Len(a) :
        /\ k <= Len(b)
        /\ \A i \in 1..k : a[i] = b[i]
        /\ \/ k = Len(a) /\ k < Len(b)
           \/ k < Len(a) /\ k < Len(b) /\ a[k + 1] < b[k + 1]

\* a OP b in the lexicographic order.
LexRel(OP, a, b) ==
    IF OP = "<" THEN LexLess(a, b)
    ELSE IF OP = ">" THEN LexLess(b, a)
    ELSE IF OP = "<=" THEN ~LexLess(b, a)
    ELSE ~LexLess(a, b)

Mirror(OP) ==
    IF OP = "<" THEN ">"
    ELSE IF OP = ">" THEN "<"
    ELSE IF OP = "<=" THEN ">="
    ELSE "<="

\* C27: for a BasicString bs and a C string s, s OP bs has the value of
\* bs OP' s for the mirrored operator OP', and both agree with the
\* lexicographic order of the character sequences.
C27_MirroredStringOperators ==
    /\ (Returned /\ last.op = "rel_cstr_bs") =>
          /\ last.val = 1 <=> rel_bs_cstr(Mirror(last.from), var[1], var[2])
          /\ last.val = 1 <=> LexRel(last.from, var[2], var[1])
    /\ (Returned /\ last.op = "rel_bs_cstr") =>
          /\ last.val = 1 <=> rel_cstr_bs(Mirror(last.from), var[2], var[1])
          /\ last.val = 1 <=> LexRel(last.from, var[1], var[2])

C27_Witness ==
    /\ Returned
    /\ last.op = "rel_cstr_bs"
    /\ last.from = "<"
    /\ last.val = 1
    /\ Len(var[2]) = 1
    /\ Len(var[1]) = 2
    /\ var[1][1] = var[2][1]

\* C28: v < w is true whenever v is VALUELESS and v > w is true whenever w
\* is VALUELESS, whatever the state of the other operand.
C28_ValuelessAlwaysLess ==
    \A x, y \in Slots :
        LET v == var[x]
            w == var[y]
        IN  /\ valueless_by_exception(v) => operator_lt(v, w, Ts)
            /\ valueless_by_exception(w) => operator_gt(v, w, Ts)

\* C28: when v is VALUELESS, v < w is true exactly when w holds a value;
\* when w is VALUELESS, v > w is true exactly when v holds a value; with both
\* VALUELESS neither v < w nor v > w is true.
C28_ValuelessLessThanHolding ==
    \A x, y \in Slots :
        LET v == var[x]
            w == var[y]
        IN  /\ valueless_by_exception(v) =>
                  (operator_lt(v, w, Ts) <=> ~valueless_by_exception(w))
            /\ valueless_by_exception(w) =>
                  (operator_gt(v, w, Ts) <=> ~valueless_by_exception(v))

C28_Witness ==
    /\ pc = "ready"
    /\ valueless_by_exception(var[1])
    /\ var[2] # NoVariant
    /\ ~valueless_by_exception(var[2])
    /\ operator_lt(var[1], var[2], Ts)
    /\ operator_gt(var[2], var[1], Ts)
    /\ ~operator_lt(var[1], var[1], Ts)

\* A copy or move construction or assignment from a VALUELESS source left
\* the target VALUELESS, with no live object.
FromValuelessSource ==
    (/\ Returned
     /\ last.op \in {"CopyCtor", "MoveCtor", "CopyAssign", "MoveAssign"}
     /\ valueless_by_exception(last.src)) =>
        /\ last.out = "ok"
        /\ Target = Valueless

\* A swap of a variant that held a value with a VALUELESS one left the
\* former VALUELESS and the latter holding the value.
SwapWithValueless ==
    /\ (/\ Returned
        /\ last.op \in Swaps
        /\ last.out = "ok"
        /\ ~valueless_by_exception(last.pre)
        /\ valueless_by_exception(last.src)) =>
           /\ valueless_by_exception(Target)
           /\ var[last.y] = last.pre
    /\ (/\ Returned
        /\ last.op \in Swaps
        /\ last.out = "ok"
        /\ valueless_by_exception(last.pre)
        /\ ~valueless_by_exception(last.src)) =>
           /\ Target = last.src
           /\ valueless_by_exception(var[last.y])

\* C29: copy construction, move construction, copy assignment and move
\* assignment from a VALUELESS source leave the target VALUELESS, and a swap
\* of a Holding variant with a VALUELESS one makes the former VALUELESS and
\* the latter Holding.
C29_ValuelessPropagates ==
    /\ FromValuelessSource
    /\ SwapWithValueless

\* The outcomes the converting assignment of the wrapped object alone can
\* have for the last call of Variant::operator=(T&&).
UnderlyingAssignments ==
    {conv_assign(last.pre, Ts, last.from, a[2], last.val, fail) :
        a \in {k \in ArgKinds : k[1] = last.from}, fail \in Faults}

\* C30: the copy-assignment of a variant to itself that ends v = x changes
\* neither the discriminant nor the held value and never leaves v VALUELESS,
\* so the state after v = x is the state the converting assignment of the
\* wrapped object alone produces.
C30_SelfAssignmentKeepsState ==
    /\ (Returned /\ last.op = "ConvertingAssign") =>
          /\ \E r \in UnderlyingAssignments :
                /\ Target = r.v
                /\ last.out = "ok" => r.out = "ok"
          /\ valueless_by_exception(Target) =>
                \E r \in UnderlyingAssignments :
                    r.out = "throw" /\ valueless_by_exception(r.v)
    /\ \A x \in Slots, fail \in BOOLEAN :
          ~valueless_by_exception(var[x]) =>
              copy_assign(var[x], Ts, var[x], fail).v = var[x]

C30_Witness ==
    /\ Returned
    /\ last.op = "ConvertingAssign"
    /\ last.out = "ok"
    /\ last.j # index(last.pre)
    /\ ~valueless_by_exception(last.pre)
    /\ ~is_trivial_alt(variant_alternative_t(last.j, Ts))
    /\ HasEvent("assign")
    /\ index(Target) = last.j
    /\ Target # last.pre

====
